---- MODULE Spec2Model ----
(***************************************************************************)
(* Model of the CLIP embedding service of pepe-tg/embedding-service:       *)
(* embedding.py (class EmbeddingService), main.py (the FastAPI handlers    *)
(* and the process-wide counters) and models.py (the request and response  *)
(* schemas); and of the chat-export splitter                               *)
(* pepe-tg/telegram_docs/design_docs/split_telegram_history.py.            *)
(*                                                                         *)
(* Python values are modelled as follows.                                  *)
(*   - Optional[T]: None is the empty tuple, a present value v is <<v>>.   *)
(*   - A str that the code formats or concatenates is a tuple of tokens    *)
(*     (user characters and fixed phrases); an f-string is the             *)
(*     concatenation of its parts.                                         *)
(*   - A call returns Ret(v) or Raise(type, msg); str(e) is e.msg.         *)
(*   - The encoder (tokenizer, PIL, the CLIP model) is external: each call *)
(*     is given an oracle value saying what the external code does.        *)
(*   - Timing metadata (processing_time_ms, total_time_ms) is not state    *)
(*     and is left out of the responses.                                   *)
(*                                                                         *)
(* Spec is the service process: the import of main.py, which loads the     *)
(* model, and then the endpoints. EncSpec is class EmbeddingService on its *)
(* own. ProcSpec adds to Spec the two ways the process is started and the  *)
(* calls of get_embedding_service(). ConcSpec runs the handlers as         *)
(* coroutines of one event loop. SplitSpec is split_messages.              *)
(***************************************************************************)
EXTENDS Integers, Sequences, FiniteSets, TLC

\* ------------------------------------------------------------------ bounds
MaxTextLen == 2      \* longest request text, in characters
MaxItems == 2        \* longest batch request
MaxRequests == 2     \* cap on request_counter
MaxTime == 1         \* cap on the wall clock
MaxReading == 1      \* cap on embed_image calls suspended at the upload read

\* --------------------------------------------------------- program constants
EmbeddingDim == 512
MinTextLength == 1
MaxTextLength == 1000
MaxBatchItems == 100

\* ------------------------------------------------------------ Python values
None == <<>>
Some(v) == <<v>>
Val(o) == o[1]

Ret(v) == [raised |-> FALSE, value |-> v]
Raise(t, m) == [raised |-> TRUE, type |-> t, msg |-> m]
str(e) == e.msg

\* ------------------------------------------------------- EmbeddingService
\* The fields __init__ assigns before the load: everything None but the names.
NewService ==
    [model |-> None, preprocess |-> None, tokenizer |-> None, device |-> None,
     model_name |-> "ViT-B-32", pretrained |-> "laion2b_s34b_b79k",
     embedding_dim |-> EmbeddingDim]

\* The fields once the try block of _load_model has run to its end.
LoadedService ==
    [NewService EXCEPT !.model = Some("CLIP"), !.preprocess = Some("transforms"),
                       !.tokenizer = Some("tokenizer"), !.device = Some("cpu")]

is_loaded(svc) == svc.model # None

\* The two fixed phrasings, each a prefix and a suffix around the text.
VisualPrefix == <<"A digital art card featuring ">>
VisualSuffix == <<", with emphasis on visual style and composition">>
ContentPrefix == <<"A digital art card depicting ">>
ContentSuffix == <<", focused on the subject matter and themes">>

apply_prompt_template_swapped(text, template) ==
    IF template = "visual" THEN ContentPrefix \o text \o ContentSuffix
    ELSE IF template = "content" THEN VisualPrefix \o text \o VisualSuffix
    ELSE text

apply_prompt_template(text, template) ==
    IF template = "visual" THEN VisualPrefix \o text \o VisualSuffix
    ELSE IF template = "content" THEN ContentPrefix \o text \o ContentSuffix
    ELSE text

\* What the external encoder does on one call:
\*   "ok"         it returns finite, non-zero features
\*   "degenerate" it returns zero or non-finite features
\*   "raise"      the tokenizer, the image decoder or the model raises
EncOutcomes == {"ok", "degenerate", "raise"}
EncoderError == <<"(encoder error)">>

\* features / features.norm(): a finite non-zero vector becomes a unit vector;
\* a zero vector (0/0) or a non-finite one becomes non-finite. No exception.
Normalize(enc) ==
    [dim |-> EmbeddingDim, kind |-> IF enc = "ok" THEN "unit" ELSE "nan"]

\* The result of an encode call: what it returned or raised, and which
\* external components it invoked on the way.
EncResult(out, used) == [out |-> out, used |-> used]

\* Calling a None tokenizer / preprocess raises TypeError inside the try
\* block, which the except clause wraps like any other exception.
NoneCallError == <<"'NoneType' object is not callable">>

\* encode_text from its try block on, without the is_loaded() guard.
encode_text_unguarded(svc, text, enc) ==
    IF svc.tokenizer = None
    THEN EncResult(Raise("RuntimeError", <<"Text encoding failed: ">> \o NoneCallError),
                   {"tokenizer"})
    ELSE IF enc = "raise" \/ svc.model = None
    THEN EncResult(Raise("RuntimeError", <<"Text encoding failed: ">> \o EncoderError),
                   {"tokenizer", "model"})
    ELSE EncResult(Ret(Normalize(enc)), {"tokenizer", "model"})

encode_text(svc, text, enc) ==
    IF ~is_loaded(svc)
    THEN EncResult(Raise("RuntimeError", <<"Model not loaded">>), {})
    ELSE IF svc.tokenizer = None
    THEN EncResult(Raise("RuntimeError", <<"Text encoding failed: ">> \o NoneCallError),
                   {"tokenizer"})
    ELSE IF enc = "raise"
    THEN EncResult(Raise("RuntimeError", <<"Text encoding failed: ">> \o EncoderError),
                   {"tokenizer", "model"})
    ELSE EncResult(Ret(Normalize(enc)), {"tokenizer", "model"})

\* Image bytes either decode (PIL opens them) or do not.
ImageBytes == {"png-bytes", "corrupt-bytes"}
DecodeError == <<"cannot identify image file">>

encode_image(svc, image_bytes, enc) ==
    IF ~is_loaded(svc)
    THEN EncResult(Raise("RuntimeError", <<"Model not loaded">>), {})
    ELSE IF image_bytes = "corrupt-bytes"
    THEN EncResult(Raise("RuntimeError", <<"Image encoding failed: ">> \o DecodeError),
                   {"Image.open"})
    ELSE IF svc.preprocess = None
    THEN EncResult(Raise("RuntimeError", <<"Image encoding failed: ">> \o NoneCallError),
                   {"Image.open", "preprocess"})
    ELSE IF enc = "raise"
    THEN EncResult(Raise("RuntimeError", <<"Image encoding failed: ">> \o EncoderError),
                   {"Image.open", "preprocess", "model"})
    ELSE EncResult(Ret(Normalize(enc)), {"Image.open", "preprocess", "model"})

\* encode_batch_text: one encoder call for the whole list; a list of one
\* embedding per text.
encode_batch_text(svc, texts, enc) ==
    IF ~is_loaded(svc)
    THEN EncResult(Raise("RuntimeError", <<"Model not loaded">>), {})
    ELSE IF svc.tokenizer = None
    THEN EncResult(Raise("RuntimeError", <<"Batch text encoding failed: ">> \o NoneCallError),
                   {"tokenizer"})
    ELSE IF enc = "raise"
    THEN EncResult(Raise("RuntimeError", <<"Batch text encoding failed: ">> \o EncoderError),
                   {"tokenizer", "model"})
    ELSE EncResult(Ret([i \in 1..Len(texts) |-> Normalize(enc)]), {"tokenizer", "model"})

\* ------------------------------------------------------------- filesystem
\* open(path, 'rb').read() on the server: two files exist, one of them not
\* an image; every other path raises FileNotFoundError.
open_read(path) ==
    IF path = "card.png" THEN Ret("png-bytes")
    ELSE IF path = "broken.png" THEN Ret("corrupt-bytes")
    ELSE Raise("FileNotFoundError", <<"[Errno 2] No such file or directory: ", path>>)

\* ------------------------------------------------------------ HTTP layer
\* A response as the client sees it: the status line and the body. shape
\* names the body's schema, i.e. its set of fields.
Response(status, shape, body) == [status |-> status, shape |-> shape, body |-> body]

\* No HTTP response at all: the process is not listening.
NoResponse == Response(0, "none", [detail |-> <<>>])

\* raise HTTPException(status_code, detail): FastAPI answers it with the
\* status code and the one-field body {"detail": detail}.
HTTPException(status_code, detail) ==
    Response(status_code, "detail", [detail |-> detail])

\* The handler registered for Exception: whatever escapes a handler.
global_exception_handler_untimed(exc, t) ==
    Response(500, "error_detail",
             [error |-> <<"Internal server error">>, detail |-> str(exc)])

global_exception_handler(exc, t) ==
    Response(500, "error_detail_timestamp",
             [error |-> <<"Internal server error">>, detail |-> str(exc), timestamp |-> t])

\* Serialising a returned model to JSON. A non-finite float in the body is
\* either refused by the JSON encoder (ValueError, which nothing in the
\* handler catches any more) or written as null, depending on the installed
\* serialiser; strict says which. has_nan: the body holds a non-finite float.
NanError == <<"Out of range float values are not JSON compliant">>

Render(shape, body, has_nan, strict, t) ==
    IF has_nan /\ strict
    THEN global_exception_handler(Raise("ValueError", NanError), t)
    ELSE Response(200, shape, body)

\* What a handler call leaves behind: the response, the two globals, and a
\* trace of what it did: the exception that ended it, if any, and where it
\* was dealt with ("caught": by an except clause of the handler, "escaped":
\* by nothing in the handler); the arguments of its encode calls in order;
\* the external components those calls invoked; whether the upload was read.
Outcome(response, counter, lrt, exc, encode_args, used, file_read) ==
    [response |-> response, counter |-> counter, lrt |-> lrt, exc |-> exc,
     encode_args |-> encode_args, used |-> used, file_read |-> file_read]

Caught(e) == Some([fate |-> "caught", e |-> e])
Escaped(e) == Some([fate |-> "escaped", e |-> e])

\* The exception, if any, that serialising the returned model raises.
RenderExc(has_nan, strict) ==
    IF has_nan /\ strict THEN Escaped(Raise("ValueError", NanError)) ELSE None

\* -------------------------------------------------------------- handlers
health_check(svc, counter, lrt) ==
    LET model_loaded == is_loaded(svc) IN
    Outcome(Response(200, "HealthResponse",
                [status |-> IF model_loaded THEN "healthy" ELSE "degraded",
                 model_loaded |-> model_loaded,
                 model_name |-> IF model_loaded THEN Some(svc.model_name) ELSE None,
                 embedding_dim |-> IF model_loaded THEN Some(svc.embedding_dim) ELSE None,
                 last_request |-> lrt,
                 total_requests |-> counter]),
            counter, lrt, None, <<>>, {}, FALSE)

\* request = [text, prompt_template]; enc: the encoder oracle; t: what
\* datetime.now() returns; strict: see Render.
embed_text_generic_detail(svc, counter, lrt, request, enc, t, strict) ==
    LET processed_text == apply_prompt_template(request.text, request.prompt_template)
        e == encode_text(svc, processed_text, enc)
    IN  IF e.out.raised
        THEN Outcome(HTTPException(500, <<"Text embedding generation failed">>),
                     counter, lrt, Caught(e.out), <<processed_text>>, e.used, FALSE)
        ELSE Outcome(Render("TextEmbeddingResponse",
                            [embedding |-> e.out.value, model |-> svc.model_name,
                             processed_text |-> processed_text],
                            e.out.value.kind = "nan", strict, t),
                     counter + 1, Some(t), RenderExc(e.out.value.kind = "nan", strict),
                     <<processed_text>>, e.used, FALSE)

embed_text(svc, counter, lrt, request, enc, t, strict) ==
    LET processed_text == apply_prompt_template(request.text, request.prompt_template)
        e == encode_text(svc, processed_text, enc)
    IN  IF e.out.raised
        THEN Outcome(HTTPException(500, <<"Text embedding generation failed: ">> \o str(e.out)),
                     counter, lrt, Caught(e.out), <<processed_text>>, e.used, FALSE)
        ELSE Outcome(Render("TextEmbeddingResponse",
                            [embedding |-> e.out.value, model |-> svc.model_name,
                             processed_text |-> processed_text],
                            e.out.value.kind = "nan", strict, t),
                     counter + 1, Some(t), RenderExc(e.out.value.kind = "nan", strict),
                     <<processed_text>>, e.used, FALSE)

allowed_types == {"image/png", "image/jpeg", "image/jpg", "image/gif"}

\* embed_image up to its await: the content-type check. TRUE: rejected.
embed_image_rejects_never(content_type) == FALSE

embed_image_rejects(content_type) == content_type \notin allowed_types

embed_image_reject(counter, lrt, content_type) ==
    Outcome(HTTPException(400, <<"Unsupported file type: ", content_type,
                                 ". Allowed: PNG, JPG, GIF">>),
            counter, lrt, None, <<>>, {}, FALSE)

\* embed_image from the await on: read is what file.read() gave, the bytes
\* or "read-error" when it raised.
ReadError == <<"(upload read error)">>

embed_image_resume(svc, counter, lrt, read, enc, t, strict) ==
    IF read = "read-error"
    THEN Outcome(HTTPException(500, <<"Image embedding generation failed: ">> \o ReadError),
                 counter, lrt, Caught(Raise("OSError", ReadError)), <<>>, {}, FALSE)
    ELSE LET e == encode_image(svc, read, enc) IN
         IF e.out.raised
         THEN Outcome(HTTPException(500, <<"Image embedding generation failed: ">> \o str(e.out)),
                      counter, lrt, Caught(e.out), <<read>>, e.used, TRUE)
         ELSE Outcome(Render("ImageEmbeddingResponse",
                             [embedding |-> e.out.value, model |-> svc.model_name],
                             e.out.value.kind = "nan", strict, t),
                      counter + 1, Some(t), RenderExc(e.out.value.kind = "nan", strict),
                      <<read>>, e.used, TRUE)

\* ----------------------------------------------------------- embed_batch
\* A request item is a BatchItem: a pydantic model with the three optional
\* fields text, path and id.
BatchItem(text, path, id) == [text |-> text, path |-> path, id |-> id]

\* item.get(key, default): BatchItem declares no method get and pydantic's
\* BaseModel has none, so the attribute lookup raises AttributeError before
\* anything is called.
NoGetError == <<"'BatchItem' object has no attribute 'get'">>

item_get(item, key, default) == Raise("AttributeError", NoGetError)

\* One entry of the handler's embeddings list.
Entry(id, embedding, success, error) ==
    [id |-> id, embedding |-> embedding, success |-> success, error |-> error]

\* The body of the inner try for one item: Ret(entry) when it appended a
\* success entry, the exception otherwise; used/args trace the encode call.
ItemTry(out, used, args) == [out |-> out, used |-> used, args |-> args]

try_item(svc, type, item, enc) ==
    IF type = "text"
    THEN LET g == item_get(item, "text", Some(<<>>)) IN
         IF g.raised THEN ItemTry(g, {}, <<>>)
         ELSE LET e == encode_text(svc, g.value, enc)
                  i == item_get(item, "id", None)
              IN  IF e.out.raised THEN ItemTry(e.out, e.used, <<g.value>>)
                  ELSE IF i.raised THEN ItemTry(i, e.used, <<g.value>>)
                  ELSE ItemTry(Ret(Entry(i.value, Some(e.out.value), TRUE, None)),
                               e.used, <<g.value>>)
    ELSE \* type = "image"
         LET p == item_get(item, "path", None) IN
         IF p.raised THEN ItemTry(p, {}, <<>>)
         ELSE IF p.value = None \/ p.value = Some("")
         THEN ItemTry(Raise("ValueError", <<"Missing 'path' for image batch item">>), {}, <<>>)
         ELSE LET f == open_read(Val(p.value)) IN
              IF f.raised THEN ItemTry(f, {}, <<>>)
              ELSE LET e == encode_image(svc, f.value, enc)
                       i == item_get(item, "id", None)
                   IN  IF e.out.raised THEN ItemTry(e.out, e.used, <<f.value>>)
                       ELSE IF i.raised THEN ItemTry(i, e.used, <<f.value>>)
                       ELSE ItemTry(Ret(Entry(i.value, Some(e.out.value), TRUE, None)),
                                    e.used, <<f.value>>)

\* The state of the for loop: the three locals, the trace, and the
\* exception that left the loop, if one did.
LoopState(embeddings, successful, failed, args, used, escaped) ==
    [embeddings |-> embeddings, successful |-> successful, failed |-> failed,
     args |-> args, used |-> used, escaped |-> escaped]

\* One iteration: the inner try and its except clause. An exception raised
\* in the except clause itself (building the error entry) leaves the loop.
loop_step(svc, type, item, enc, st) ==
    LET r == try_item(svc, type, item, enc) IN
    IF ~r.out.raised
    THEN LoopState(Append(st.embeddings, r.out.value), st.successful + 1, st.failed,
                   st.args \o r.args, st.used \cup r.used, None)
    ELSE LET i == item_get(item, "id", None) IN
         IF i.raised
         THEN LoopState(st.embeddings, st.successful, st.failed,
                        st.args \o r.args, st.used \cup r.used, Some(i))
         ELSE LoopState(Append(st.embeddings, Entry(i.value, None, FALSE, Some(str(r.out)))),
                        st.successful, st.failed + 1,
                        st.args \o r.args, st.used \cup r.used, None)

RECURSIVE batch_loop(_, _, _, _, _, _)
batch_loop(svc, type, items, encs, k, st) ==
    IF k > Len(items) \/ st.escaped # None THEN st
    ELSE batch_loop(svc, type, items, encs, k + 1,
                    loop_step(svc, type, items[k], encs[k], st))

HasNan(embeddings) ==
    \E k \in 1..Len(embeddings) :
        /\ embeddings[k].embedding # None
        /\ Val(embeddings[k].embedding).kind = "nan"

\* request = [type, items]; encs: one encoder oracle per item.
embed_batch(svc, counter, lrt, request, encs, t, strict) ==
    LET st == batch_loop(svc, request.type, request.items, encs, 1,
                         LoopState(<<>>, 0, 0, <<>>, {}, None))
    IN  IF st.escaped # None
        THEN Outcome(HTTPException(500, <<"Batch embedding failed: ">> \o str(Val(st.escaped))),
                     counter, lrt, Caught(Val(st.escaped)), st.args, st.used, FALSE)
        ELSE Outcome(Render("BatchEmbeddingResponse",
                            [embeddings |-> st.embeddings, total |-> Len(request.items),
                             successful |-> st.successful, failed |-> st.failed],
                            HasNan(st.embeddings), strict, t),
                     counter + st.successful, Some(t), RenderExc(HasNan(st.embeddings), strict),
                     st.args, st.used, FALSE)

\* ------------------------------------------------------------------ state
VARIABLES
    phase,              \* "script": main.py is running as __main__;
                        \* "importing": it is being imported as module main;
                        \* "serving"; "crashed"; "none": no service process
    embedding_service,  \* the fields of main.py's EmbeddingService instance
    request_counter,    \* main.py global
    last_request_time,  \* main.py global: None or <<time>>
    reading,            \* the embed_image calls suspended at await file.read():
                        \* the content type of each upload, oldest first
    resp,               \* the last exchange a client completed, with its trace
    call,               \* the last direct method call on an EmbeddingService
    load_count,         \* how many times _load_model has been entered
    service_id,         \* which instance embedding_service names: the ordinal
                        \* of the EmbeddingService() call that made it
    instance,           \* embedding.py global _embedding_service_instance:
                        \* None or <<[id, svc]>>
    got,                \* what the last get_embedding_service() call gave
    seen,               \* for each suspended embed_image call, the value
                        \* request_counter had when it was suspended
    isolated,           \* the sum, over the completed requests, of what
                        \* each adds to the counter when it runs alone
    overtaken,          \* an embed_image call has resumed after another
                        \* request changed request_counter under it
    export,             \* split_telegram_history.py: the parsed input file
    chunk_size,         \* split_messages' chunk_size argument
    split               \* what the last split_messages call did

process == <<load_count, service_id, instance, got>>
conc == <<seen, isolated, overtaken>>
script == <<export, chunk_size, split>>
others == <<process, conc, script>>

vars == <<phase, embedding_service, request_counter, last_request_time, reading, resp, call,
          others>>

\* ----------------------------------------------------------------- inputs
Chars == {"a", "b"}
Strings(n) == UNION {[1..k -> Chars] : k \in 0..n}
\* TextEmbeddingRequest.text: min_length and max_length are validated
\* before the handler runs.
Texts == {text \in Strings(MaxTextLen) : Len(text) \in MinTextLength..MaxTextLength}
Templates == {"visual", "content", "raw"}
TextRequests == [text : Texts, prompt_template : Templates]

ContentTypes == {"image/png", "text/plain", "application/pdf"}
Reads == ImageBytes \cup {"read-error"}

\* Batch items, each with what the encoder does when it is given that
\* item's content (the oracle of the item's encode call).
ItemCases ==
    { [item |-> BatchItem(Some(<<"a">>), None, Some("id1")), enc |-> "ok"],
      [item |-> BatchItem(Some(<<"a">>), Some("card.png"), None), enc |-> "degenerate"],
      [item |-> BatchItem(Some(<<"b">>), Some("missing.png"), Some("id2")), enc |-> "raise"],
      [item |-> BatchItem(None, None, None), enc |-> "ok"] }
\* BatchEmbeddingRequest.items: max_items is validated before the handler runs.
ItemCaseLists == UNION {[1..n -> ItemCases] : n \in {m \in 0..MaxItems : m <= MaxBatchItems}}
ItemsOf(cases) == [k \in 1..Len(cases) |-> cases[k].item]
EncsOf(cases) == [k \in 1..Len(cases) |-> cases[k].enc]
BatchTypes == {"text", "image"}
BatchRequest(type, cases) == [type |-> type, items |-> ItemsOf(cases)]

Times == 0..MaxTime
\* datetime.now(): one tick after the time last recorded; from MaxTime on
\* the clock stands still, and a later reading equals the recorded one.
Now(lrt) ==
    IF lrt = None THEN 0
    ELSE IF Val(lrt) + 1 \in Times THEN Val(lrt) + 1
    ELSE Val(lrt)

\* Whether the serialiser refuses a non-finite float matters only when the
\* encoder produced one.
Strictness(encs) == IF "degenerate" \in encs THEN BOOLEAN ELSE {TRUE}

\* The record of a completed exchange: the request, the encoder oracle(s)
\* of the call, the response, and the handler's trace. served: the handler
\* ran; loaded: is_loaded() as the handler saw it.
Exchange(endpoint, request, oracle, o, svc, counter, lrt) ==
    [endpoint |-> endpoint, request |-> request, oracle |-> oracle,
     served |-> TRUE, loaded |-> is_loaded(svc), response |-> o.response,
     counter_delta |-> o.counter - counter, lrt_changed |-> o.lrt # lrt,
     exc |-> o.exc, encode_args |-> o.encode_args, used |-> o.used,
     file_read |-> o.file_read]

\* A request that no handler ran for.
Unanswered(endpoint, request) ==
    [endpoint |-> endpoint, request |-> request, oracle |-> "none",
     served |-> FALSE, loaded |-> FALSE, response |-> NoResponse,
     counter_delta |-> 0, lrt_changed |-> FALSE,
     exc |-> None, encode_args |-> <<>>, used |-> {}, file_read |-> FALSE]

NoCall ==
    [method |-> "none", svc |-> NewService, arg |-> <<>>,
     result |-> EncResult(Ret(<<>>), {})]

\* main.py is being imported: line 32 has entered EmbeddingService() and
\* __init__ has assigned the fields; no request has been seen.
ServiceStart ==
    /\ embedding_service = NewService
    /\ request_counter = 0
    /\ last_request_time = None
    /\ reading = <<>>
    /\ resp = Unanswered("none", <<>>)
    /\ call = NoCall

\* The process has made one EmbeddingService, whose _load_model is running;
\* embedding.py's line 210 has set _embedding_service_instance to None.
ProcessStart ==
    /\ load_count = 1
    /\ service_id = 1
    /\ instance = None
    /\ got = None

ConcStart ==
    /\ seen = <<>>
    /\ isolated = 0
    /\ overtaken = FALSE

\* split_telegram_history.py is a script of its own; the service never runs it.
ScriptIdle ==
    /\ export = <<>>
    /\ chunk_size = 1
    /\ split = None

Init ==
    /\ phase = "importing"
    /\ ServiceStart
    /\ ProcessStart
    /\ ConcStart
    /\ ScriptIdle

\* ---------------------------------------------------------------- actions
\* The steps of _load_model's try block, in order: the device (line 39),
\* the model and its transforms (43), the tokenizer (50).
LoadStepsDone(svc) ==
    IF svc.device = None THEN 0
    ELSE IF svc.model = None THEN 1
    ELSE IF svc.tokenizer = None THEN 2
    ELSE 3

LoadStep(svc) ==
    IF LoadStepsDone(svc) = 0 THEN [svc EXCEPT !.device = LoadedService.device]
    ELSE IF LoadStepsDone(svc) = 1
    THEN [svc EXCEPT !.model = LoadedService.model, !.preprocess = LoadedService.preprocess]
    ELSE [svc EXCEPT !.tokenizer = LoadedService.tokenizer]

\* _load_model runs to its end; the import completes and uvicorn listens.
LoadModelOk ==
    /\ phase = "importing"
    /\ embedding_service' = LoadStep(LoadStep(LoadStep(embedding_service)))
    /\ phase' = "serving"
    /\ UNCHANGED <<request_counter, last_request_time, reading, resp, call>>
    /\ UNCHANGED others

\* _load_model fails at create_model_and_transforms or at get_tokenizer; the
\* except clause re-raises, the exception leaves __init__ and the import of
\* main.py: the name embedding_service is never bound and nothing is served.
LoadModelFails ==
    /\ phase = "importing"
    /\ \/ embedding_service' = LoadStep(embedding_service)
       \/ embedding_service' = LoadStep(LoadStep(embedding_service))
    /\ phase' = "crashed"
    /\ UNCHANGED <<request_counter, last_request_time, reading, resp, call>>
    /\ UNCHANGED others

\* A client calls an endpoint while the process is not serving: while the
\* model is still loading, or after the load failed. No handler runs and
\* nothing answers.
Unserved ==
    /\ phase # "serving"
    /\ \/ resp' = Unanswered("health", <<>>)
       \/ \E request \in TextRequests : resp' = Unanswered("text", request)
       \/ \E content_type \in ContentTypes :
            resp' = Unanswered("image", [content_type |-> content_type])
       \/ \E type \in BatchTypes, cases \in ItemCaseLists :
            resp' = Unanswered("batch", BatchRequest(type, cases))
    /\ UNCHANGED <<phase, embedding_service, request_counter, last_request_time, reading, call>>
    /\ UNCHANGED others

Commit(endpoint, request, oracle, o) ==
    /\ request_counter' = o.counter
    /\ last_request_time' = o.lrt
    /\ resp' = Exchange(endpoint, request, oracle, o, embedding_service,
                        request_counter, last_request_time)

HealthCheck ==
    /\ phase = "serving"
    /\ Commit("health", <<>>, "none",
              health_check(embedding_service, request_counter, last_request_time))
    /\ UNCHANGED <<phase, embedding_service, reading, call>>
    /\ UNCHANGED others

EmbedText ==
    /\ phase = "serving"
    /\ request_counter < MaxRequests
    /\ \E request \in TextRequests, enc \in EncOutcomes :
       \E strict \in Strictness({enc}) :
         Commit("text", request, enc,
                embed_text(embedding_service, request_counter, last_request_time,
                           request, enc, Now(last_request_time), strict))
    /\ UNCHANGED <<phase, embedding_service, reading, call>>
    /\ UNCHANGED others

\* embed_image up to the await: either the 400, or the call is suspended.
EmbedImageBegin ==
    /\ phase = "serving"
    /\ \E content_type \in ContentTypes :
         IF embed_image_rejects(content_type)
         THEN /\ Commit("image", [content_type |-> content_type], "none",
                        embed_image_reject(request_counter, last_request_time, content_type))
              /\ UNCHANGED reading
         ELSE /\ Len(reading) < MaxReading
              /\ reading' = Append(reading, content_type)
              /\ UNCHANGED <<request_counter, last_request_time, resp>>
    /\ UNCHANGED <<phase, embedding_service, call>>
    /\ UNCHANGED others

\* embed_image from the await to its end, for any one of the suspended calls.
EmbedImageResume ==
    /\ phase = "serving"
    /\ request_counter < MaxRequests
    /\ \E k \in 1..Len(reading) :
         /\ reading' = SubSeq(reading, 1, k - 1) \o SubSeq(reading, k + 1, Len(reading))
         /\ \E read \in Reads, enc \in EncOutcomes :
            \E strict \in Strictness({enc}) :
              Commit("image", [content_type |-> reading[k], read |-> read], enc,
                     embed_image_resume(embedding_service, request_counter,
                                        last_request_time, read, enc,
                                        Now(last_request_time), strict))
    /\ UNCHANGED <<phase, embedding_service, call>>
    /\ UNCHANGED others

EmbedBatch ==
    /\ phase = "serving"
    /\ \E type \in BatchTypes, cases \in ItemCaseLists :
         /\ request_counter + Len(cases) <= MaxRequests
         /\ \E strict \in Strictness({cases[k].enc : k \in 1..Len(cases)}) :
              Commit("batch", BatchRequest(type, cases), EncsOf(cases),
                     embed_batch(embedding_service, request_counter, last_request_time,
                                 BatchRequest(type, cases), EncsOf(cases),
                                 Now(last_request_time), strict))
    /\ UNCHANGED <<phase, embedding_service, reading, call>>
    /\ UNCHANGED others

Next ==
    \/ LoadModelOk
    \/ LoadModelFails
    \/ Unserved
    \/ HealthCheck
    \/ EmbedText
    \/ EmbedImageBegin
    \/ EmbedImageResume
    \/ EmbedBatch

Spec == Init /\ [][Next]_vars

\* ------------------------------------------------- the class on its own
\* EncSpec drives class EmbeddingService by itself: the encode methods are
\* applied to the instance in every state its fields pass through between
\* __init__ (lines 22-28) and the end of _load_model (line 50). In the
\* served process (Spec) the instance is only reachable once loaded.
ConstructStep ==
    /\ LoadStepsDone(embedding_service) < 3
    /\ embedding_service' = LoadStep(embedding_service)
    /\ UNCHANGED <<phase, request_counter, last_request_time, reading, resp, call>>
    /\ UNCHANGED others

MethodCall(method, arg, result) ==
    /\ call' = [method |-> method, svc |-> embedding_service, arg |-> arg, result |-> result]
    /\ UNCHANGED <<phase, embedding_service, request_counter, last_request_time, reading, resp>>
    /\ UNCHANGED others

CallEncodeText ==
    \E text \in Strings(MaxTextLen), enc \in EncOutcomes :
        MethodCall("encode_text", text, encode_text(embedding_service, text, enc))

CallEncodeImage ==
    \E image_bytes \in ImageBytes, enc \in EncOutcomes :
        MethodCall("encode_image", image_bytes,
                   encode_image(embedding_service, image_bytes, enc))

TextLists == UNION {[1..n -> Strings(1)] : n \in 0..MaxItems}

CallEncodeBatchText ==
    \E texts \in TextLists, enc \in EncOutcomes :
        MethodCall("encode_batch_text", texts,
                   encode_batch_text(embedding_service, texts, enc))

EncNext ==
    \/ ConstructStep
    \/ CallEncodeText
    \/ CallEncodeImage
    \/ CallEncodeBatchText

EncSpec == Init /\ [][EncNext]_vars

\* ----------------------------------------------------------------- claims
\* part occurs in s as a contiguous run of tokens.
Contains(s, part) ==
    \E i \in 1..(Len(s) - Len(part) + 1) : SubSeq(s, i, i + Len(part) - 1) = part

BatchServed == resp.endpoint = "batch" /\ resp.served

\* C1: every batch request the handler takes, with N items, is answered by
\* a batch response with exactly N entries, total = N and
\* successful + failed = N, successful and failed being the numbers of
\* entries with success true and false.
C1_BatchCounts ==
    BatchServed =>
        LET N == Len(resp.request.items)
            r == resp.response
        IN  /\ r.shape = "BatchEmbeddingResponse"
            /\ Len(r.body.embeddings) = N
            /\ r.body.total = N
            /\ r.body.successful + r.body.failed = N
            /\ r.body.successful = Cardinality({k \in 1..N : r.body.embeddings[k].success})
            /\ r.body.failed = Cardinality({k \in 1..N : ~r.body.embeddings[k].success})

\* The items of the last batch request whose processing raised.
RaisingItems ==
    {k \in 1..Len(resp.request.items) :
        try_item(embedding_service, resp.request.type, resp.request.items[k],
                 resp.oracle[k]).out.raised}

\* C2: when the processing of an item of a batch raises, the batch is still
\* answered with a normal batch response (no HTTP error), every item has
\* its entry, and the entry of each raising item records the failure.
C2_ItemIsolation ==
    (BatchServed /\ RaisingItems # {}) =>
        LET r == resp.response IN
        /\ r.status = 200
        /\ r.shape = "BatchEmbeddingResponse"
        /\ Len(r.body.embeddings) = Len(resp.request.items)
        /\ \A k \in RaisingItems :
              /\ ~r.body.embeddings[k].success
              /\ r.body.embeddings[k].error # None

ImageServed == resp.endpoint = "image" /\ resp.served

C5_HealthBeforeLoad ==
    resp.endpoint = "health" =>
        LET r == resp.response IN
        /\ r.shape = "HealthResponse"
        /\ ~resp.loaded =>
              /\ r.body.status = "degraded"
              /\ r.body.model_loaded = FALSE
              /\ r.body.model_name = None
              /\ r.body.embedding_dim = None
        /\ resp.loaded => (r.body.status = "healthy" /\ r.body.model_loaded = TRUE)
        /\ (r.body.status = "healthy") <=> r.body.model_loaded

EncodeMethods == {"encode_text", "encode_image", "encode_batch_text"}

\* C6: on an instance that is not loaded, encode_text, encode_image and
\* encode_batch_text raise RuntimeError("Model not loaded") at once: they
\* invoke neither the tokenizer, the image decoder nor the model, and
\* return no vector.
C6_NotLoadedFailsFast ==
    (call.method \in EncodeMethods /\ ~is_loaded(call.svc)) =>
        /\ call.result.out.raised
        /\ call.result.out.type = "RuntimeError"
        /\ call.result.out.msg = <<"Model not loaded">>
        /\ call.result.used = {}

\* C6 witness: encode_image called on an instance whose load has not
\* reached the model, with bytes that would decode and an encoder that
\* would answer.
C6_Witness ==
    /\ call.method = "encode_image"
    /\ ~is_loaded(call.svc)
    /\ call.arg = "png-bytes"
    /\ call.result.out.raised

\* C7: a request to an embedding endpoint (text, image with an allowed
\* content type, batch with at least one item) made while the model is not
\* loaded is answered 500 with a message naming the not-ready condition.
C7_NotReadyIs500 ==
    ( /\ ~resp.loaded
      /\ \/ resp.endpoint = "text"
         \/ resp.endpoint = "image" /\ resp.request.content_type \in allowed_types
         \/ resp.endpoint = "batch" /\ Len(resp.request.items) >= 1 ) =>
        /\ resp.response.status = 500
        /\ Contains(resp.response.body.detail, <<"Model not loaded">>)

SingleServed == resp.endpoint \in {"text", "image"} /\ resp.served

\* C8: a request to embed_text or embed_image ends in exactly one of: 200
\* with an embedding; 400, only for an image of a type not allowed; 500,
\* exactly when an exception was raised while handling it, with the text
\* of that exception in the detail. An encoder that raises never yields a
\* success nor a status other than 500.
C8_SingleItemOutcomes ==
    SingleServed =>
        LET r == resp.response IN
        /\ \/ /\ r.status = 200
              /\ r.shape = IF resp.endpoint = "text" THEN "TextEmbeddingResponse"
                                                     ELSE "ImageEmbeddingResponse"
              /\ "embedding" \in DOMAIN r.body
              /\ r.body.embedding.dim = EmbeddingDim
           \/ /\ r.status = 400
              /\ resp.endpoint = "image"
              /\ resp.request.content_type \notin allowed_types
           \/ r.status = 500
        /\ r.status = 500 <=> resp.exc # None
        /\ r.status = 500 => Contains(r.body.detail, str(Val(resp.exc).e))
        /\ (resp.oracle = "raise" /\ resp.encode_args # <<>>) => r.status = 500

\* C8 witness: embed_text answered 500 because the encoder raised.
C8_Witness ==
    /\ SingleServed
    /\ resp.endpoint = "text"
    /\ resp.oracle = "raise"
    /\ resp.response.status = 500

ErrorResponseFields == {"error", "detail", "timestamp"}

\* C9 as stated: every exception raised while an endpoint handler runs, those
\* raised inside embed_text, embed_image and embed_batch included, is
\* answered 500 with a body of the three fields error, detail, timestamp.
C9_EveryExceptionErrorShape ==
    (resp.served /\ resp.exc # None) =>
        /\ resp.response.status = 500
        /\ DOMAIN resp.response.body = ErrorResponseFields

\* C9 amended: an exception that escapes the handler is answered 500 with
\* the three fields error, detail (the exception's text) and timestamp; an
\* exception raised inside the try block of embed_text, embed_image or
\* embed_batch does not escape: the handler turns it into HTTPException(500),
\* answered 500 with the single field detail.
C9_EscapedErrorShape ==
    (resp.served /\ resp.exc # None) =>
        /\ resp.response.status = 500
        /\ IF Val(resp.exc).fate = "escaped"
           THEN /\ DOMAIN resp.response.body = ErrorResponseFields
                /\ resp.response.body.detail = str(Val(resp.exc).e)
           ELSE DOMAIN resp.response.body = {"detail"}

\* C9 witness: an exception escaped embed_text (raised while its returned
\* model was serialised) and the global handler answered.
C9_Witness ==
    /\ resp.served
    /\ resp.endpoint = "text"
    /\ resp.exc # None
    /\ Val(resp.exc).fate = "escaped"

\* The three templates, written out.
Templated(text, template) ==
    CASE template = "raw" -> text
      [] template = "visual" ->
            <<"A digital art card featuring ">> \o text
                \o <<", with emphasis on visual style and composition">>
      [] template = "content" ->
            <<"A digital art card depicting ">> \o text
                \o <<", focused on the subject matter and themes">>

\* C10: 'raw' leaves the text unchanged, 'visual' and 'content' wrap the
\* text, verbatim, in their fixed phrasing; the templated string is the one
\* argument embed_text passes to encode_text and the processed_text of its
\* successful response.
C10_TemplateApplied ==
    (resp.endpoint = "text" /\ resp.served) =>
        LET expected == Templated(resp.request.text, resp.request.prompt_template) IN
        /\ resp.encode_args = <<expected>>
        /\ resp.response.shape = "TextEmbeddingResponse" =>
              resp.response.body.processed_text = expected

\* C10 witness: a successful 'visual' request for a text of two different
\* characters.
C10_Witness ==
    /\ resp.endpoint = "text"
    /\ resp.served
    /\ resp.request = [text |-> <<"a", "b">>, prompt_template |-> "visual"]
    /\ resp.response.status = 200
    /\ resp.response.body.processed_text =
          <<"A digital art card featuring ", "a", "b",
            ", with emphasis on visual style and composition">>

\* validate_embedding: abs(norm - 1.0) < 0.01. The norm of a unit vector is
\* 1.0 up to rounding; the norm of a vector with a non-finite element is
\* non-finite, and every comparison with it is False.
validate_embedding(embedding) == embedding.kind = "unit"

\* The vectors the last response returned to the client: the embedding of a
\* 200 from the text or image endpoint, the embeddings of the success
\* entries of a 200 from the batch endpoint.
ReturnedVectors ==
    IF ~resp.served \/ resp.response.status # 200 THEN {}
    ELSE IF resp.endpoint \in {"text", "image"} THEN {resp.response.body.embedding}
    ELSE IF resp.endpoint = "batch"
    THEN {Val(resp.response.body.embeddings[k].embedding) :
            k \in {j \in 1..Len(resp.response.body.embeddings) :
                      resp.response.body.embeddings[j].success}}
    ELSE {}

\* C11: every vector a successful embed call returns has exactly 512
\* elements and Euclidean norm within 0.01 of 1.0, whatever the encoder
\* returned, a zero or non-finite output included.
C11_UnitNorm ==
    \A v \in ReturnedVectors : v.dim = EmbeddingDim /\ validate_embedding(v)

\* ------------------------------------------ the instances of one process
MaxLoads == 3        \* cap on load_count

\* What _load_model re-raises: whatever open_clip raised.
LoadError == <<"(model load error)">>

\* get_embedding_service(): creates the module's instance when the global
\* is None, then returns the global. inst: the global; n: load_count;
\* load_ok: whether the _load_model of a new instance succeeds. A new
\* EmbeddingService() runs _load_model once; when that raises, the
\* exception leaves get_embedding_service() and the global stays None.
get_embedding_service(inst, n, load_ok) ==
    IF inst = None
    THEN IF load_ok
         THEN [instance |-> Some([id |-> n + 1, svc |-> LoadedService]),
               load_count |-> n + 1, out |-> Ret(n + 1)]
         ELSE [instance |-> None, load_count |-> n + 1,
               out |-> Raise("Exception", LoadError)]
    ELSE [instance |-> inst, load_count |-> n, out |-> Ret(Val(inst).id)]

\* The process was started as "python main.py" or as "uvicorn main:app".
ProcInit ==
    /\ phase \in {"script", "importing"}
    /\ ServiceStart
    /\ ProcessStart
    /\ ConcStart
    /\ ScriptIdle

\* python main.py: the file has run as module __main__ to its last
\* statement, the load of its line 32 included, and uvicorn.run("main:app")
\* imports the file again, under the name main, in the same process: line 32
\* runs a second time and makes the instance that the served handlers use.
ScriptLoadOk ==
    /\ phase = "script"
    /\ phase' = "importing"
    /\ embedding_service' = NewService
    /\ load_count' = load_count + 1
    /\ service_id' = load_count + 1
    /\ UNCHANGED <<request_counter, last_request_time, reading, resp, call>>
    /\ UNCHANGED <<instance, got, conc, script>>

\* python main.py, and the load of module __main__ fails: the script ends.
ScriptLoadFails ==
    /\ phase = "script"
    /\ phase' = "crashed"
    /\ \/ embedding_service' = LoadStep(embedding_service)
       \/ embedding_service' = LoadStep(LoadStep(embedding_service))
    /\ UNCHANGED <<request_counter, last_request_time, reading, resp, call>>
    /\ UNCHANGED others

\* Some code of the serving process calls embedding.get_embedding_service().
GetEmbeddingService ==
    /\ phase = "serving"
    /\ \E load_ok \in BOOLEAN :
         LET g == get_embedding_service(instance, load_count, load_ok) IN
         /\ g.load_count <= MaxLoads
         /\ instance' = g.instance
         /\ load_count' = g.load_count
         /\ got' = Some(g.out)
    /\ UNCHANGED <<phase, embedding_service, request_counter, last_request_time,
                   reading, resp, call>>
    /\ UNCHANGED <<service_id, conc, script>>

ProcNext ==
    \/ ScriptLoadOk
    \/ ScriptLoadFails
    \/ GetEmbeddingService
    \/ LoadModelOk
    \/ LoadModelFails
    \/ Unserved
    \/ HealthCheck
    \/ EmbedText
    \/ EmbedImageBegin
    \/ EmbedImageResume
    \/ EmbedBatch

ProcSpec == ProcInit /\ [][ProcNext]_vars

\* C12: in one process _load_model runs at most once; every call of
\* get_embedding_service() returns one and the same instance, the one the
\* HTTP handlers use; and while requests are served the model, preprocess,
\* tokenizer and device of that instance are the ones the load set.
C12_SingleInstance ==
    /\ load_count <= 1
    /\ got # None => (~Val(got).raised /\ Val(got).value = service_id)
    /\ phase = "serving" =>
          (is_loaded(embedding_service) /\ embedding_service = LoadedService)

\* ------------------------------------------------------ the health counter
\* How many embeddings the last exchange delivered to its client.
DeliveredCount ==
    IF ~resp.served \/ resp.response.status # 200 THEN 0
    ELSE IF resp.endpoint \in {"text", "image"} THEN 1
    ELSE IF resp.endpoint = "batch"
    THEN Cardinality({k \in 1..Len(resp.response.body.embeddings) :
                         resp.response.body.embeddings[k].success})
    ELSE 0

\* C13: the counter starts at 0 and never decreases; every request adds
\* exactly the number of embeddings it produced for its client: 1 for a
\* successful /embed/text or /embed/image, the successful count for
\* /embed/batch, nothing for GET /health, which reports the counter as
\* total_requests; and a positive counter implies a recorded last request.
C13_CounterCountsEmbeddings ==
    /\ request_counter >= 0
    /\ phase # "serving" => request_counter = 0
    /\ resp.counter_delta >= 0
    /\ resp.served => resp.counter_delta = DeliveredCount
    /\ (resp.served /\ resp.endpoint = "batch" /\ resp.response.status = 200) =>
          resp.counter_delta = resp.response.body.successful
    /\ request_counter > 0 => last_request_time # None
    /\ (resp.served /\ resp.endpoint = "health") =>
          /\ resp.response.body.total_requests = request_counter
          /\ resp.response.body.last_request = last_request_time
          /\ resp.response.body.total_requests > 0 =>
                resp.response.body.last_request # None

\* The last request ended without an embedding, in one of the ways C14
\* lists: a 400 or 500 from /embed/text or /embed/image, a batch response
\* with no successful item, or a GET /health.
EndedWithoutEmbedding ==
    /\ resp.served
    /\ \/ resp.endpoint \in {"text", "image"} /\ resp.response.status \in {400, 500}
       \/ /\ resp.endpoint = "batch"
          /\ resp.response.shape = "BatchEmbeddingResponse"
          /\ resp.response.body.successful = 0
       \/ resp.endpoint = "health"

\* C14: a request that produces no embedding leaves the health snapshot as
\* it was: neither request_counter nor last_request_time is changed by an
\* /embed/text or /embed/image request that ends in 400 or 500, by an
\* /embed/batch request in which no item succeeded, or by GET /health.
C14_NoEmbeddingNoChange ==
    EndedWithoutEmbedding => (resp.counter_delta = 0 /\ ~resp.lrt_changed)

\* ------------------------------------------- handlers on the event loop
\* The handlers are coroutines on one event loop: a handler runs until it
\* awaits or returns. embed_text, embed_batch and health_check await
\* nothing; embed_image awaits once, at file.read() (line 118). ConcSpec
\* runs them interleaved at that grain and records, for every completed
\* request, what it adds to the counter when it runs alone.
MaxSuspended == 2    \* cap on embed_image calls suspended at the same time

\* The value "request_counter += 1" (line 124) starts from: the statement
\* reads the global when it runs, after the await; at_await is the value
\* the global had when the call was suspended.
counter_read_before_await(now, at_await) == at_await

counter_read(now, at_await) == now

\* A request completes: o is what its handler did here, alone what the
\* same call does in a process that serves nothing else.
Complete(endpoint, request, oracle, o, alone) ==
    /\ Commit(endpoint, request, oracle, o)
    /\ isolated' = isolated + (alone.counter - 0)

\* What a request adds to the counter depends on it only through the
\* outcome of its encode calls: the requests of ConcSpec are the shortest
\* texts and the batches of at most one item, with every encoder outcome.
ConcTextRequests == {request \in TextRequests : Len(request.text) = MinTextLength}
ConcItemCaseLists == {cases \in ItemCaseLists : Len(cases) <= 1}

ConcHealthCheck ==
    /\ phase = "serving"
    /\ Complete("health", <<>>, "none",
                health_check(embedding_service, request_counter, last_request_time),
                health_check(embedding_service, 0, None))
    /\ UNCHANGED <<phase, embedding_service, reading, call>>
    /\ UNCHANGED <<process, seen, overtaken, script>>

ConcEmbedText ==
    /\ phase = "serving"
    /\ request_counter < MaxRequests
    /\ \E request \in ConcTextRequests, enc \in EncOutcomes :
       \E strict \in Strictness({enc}) :
         Complete("text", request, enc,
                  embed_text(embedding_service, request_counter, last_request_time,
                             request, enc, Now(last_request_time), strict),
                  embed_text(embedding_service, 0, None, request, enc, Now(None), strict))
    /\ UNCHANGED <<phase, embedding_service, reading, call>>
    /\ UNCHANGED <<process, seen, overtaken, script>>

ConcEmbedBatch ==
    /\ phase = "serving"
    /\ \E type \in BatchTypes, cases \in ConcItemCaseLists :
         /\ request_counter + Len(cases) <= MaxRequests
         /\ \E strict \in Strictness({cases[k].enc : k \in 1..Len(cases)}) :
              Complete("batch", BatchRequest(type, cases), EncsOf(cases),
                       embed_batch(embedding_service, request_counter, last_request_time,
                                   BatchRequest(type, cases), EncsOf(cases),
                                   Now(last_request_time), strict),
                       embed_batch(embedding_service, 0, None,
                                   BatchRequest(type, cases), EncsOf(cases),
                                   Now(None), strict))
    /\ UNCHANGED <<phase, embedding_service, reading, call>>
    /\ UNCHANGED <<process, seen, overtaken, script>>

\* embed_image up to the await: the 400, or the call is suspended while
\* other handlers run.
ConcEmbedImageBegin ==
    /\ phase = "serving"
    /\ \E content_type \in ContentTypes :
         IF embed_image_rejects(content_type)
         THEN /\ Complete("image", [content_type |-> content_type], "none",
                          embed_image_reject(request_counter, last_request_time, content_type),
                          embed_image_reject(0, None, content_type))
              /\ UNCHANGED <<reading, seen>>
         ELSE /\ Len(reading) < MaxSuspended
              /\ reading' = Append(reading, content_type)
              /\ seen' = Append(seen, request_counter)
              /\ UNCHANGED <<request_counter, last_request_time, resp, isolated>>
    /\ UNCHANGED <<phase, embedding_service, call>>
    /\ UNCHANGED <<process, overtaken, script>>

\* Any one of the suspended embed_image calls resumes and runs to its end.
ConcEmbedImageResume ==
    /\ phase = "serving"
    /\ request_counter < MaxRequests
    /\ \E k \in 1..Len(reading) :
         /\ reading' = SubSeq(reading, 1, k - 1) \o SubSeq(reading, k + 1, Len(reading))
         /\ seen' = SubSeq(seen, 1, k - 1) \o SubSeq(seen, k + 1, Len(seen))
         /\ overtaken' = (overtaken \/ seen[k] # request_counter)
         /\ \E read \in Reads, enc \in EncOutcomes :
            \E strict \in Strictness({enc}) :
              Complete("image", [content_type |-> reading[k], read |-> read], enc,
                       embed_image_resume(embedding_service,
                                          counter_read(request_counter, seen[k]),
                                          last_request_time, read, enc,
                                          Now(last_request_time), strict),
                       embed_image_resume(embedding_service, 0, None, read, enc,
                                          Now(None), strict))
    /\ UNCHANGED <<phase, embedding_service, call>>
    /\ UNCHANGED <<process, script>>

ConcNext ==
    \/ LoadModelOk
    \/ LoadModelFails
    \/ ConcHealthCheck
    \/ ConcEmbedText
    \/ ConcEmbedBatch
    \/ ConcEmbedImageBegin
    \/ ConcEmbedImageResume

ConcSpec == Init /\ [][ConcNext]_vars

\* C15: no counter update is lost under any interleaving of the handlers:
\* once every request has completed (no embed_image call is suspended),
\* request_counter is the sum of what each request adds when it runs alone.
C15_NoLostUpdate ==
    reading = <<>> => request_counter = isolated

\* C15 witness: all requests have completed, the last of them an
\* embed_image call that was suspended while another request incremented
\* the counter and that then added its own 1.
C15_Witness ==
    /\ reading = <<>>
    /\ overtaken
    /\ resp.endpoint = "image"
    /\ resp.response.status = 200
    /\ resp.counter_delta = 1
    /\ request_counter >= 2

\* C16: the entries of a batch response are in request order, one per item:
\* the i-th entry carries the id of the i-th item (null when it has none),
\* whether it succeeded or failed, and the item is handled by the request's
\* type alone: in a text batch an item is encoded (an item without text as
\* the empty string), so it succeeds when the encoder does; in an image
\* batch an item without a path is a failure.
C16_BatchOrderIdentity ==
    BatchServed =>
        LET items == resp.request.items
            r == resp.response
        IN  /\ r.shape = "BatchEmbeddingResponse"
            /\ Len(r.body.embeddings) = Len(items)
            /\ \A i \in 1..Len(items) :
                  LET e == r.body.embeddings[i] IN
                  /\ e.id = items[i].id
                  /\ (resp.request.type = "text" /\ resp.oracle[i] # "raise") => e.success
                  /\ (resp.request.type = "text" /\ resp.oracle[i] = "raise") => ~e.success
                  /\ (resp.request.type = "image" /\ items[i].path = None) => ~e.success

\* ------------------------------------------- split_telegram_history.py
\* A str is a tuple of characters. A message of the export is a record
\* with its type, its date (which tells the messages apart; from and
\* from_id are carried along like it) and an optional text: a str, or a
\* list of parts, each a str or a dict with or without a "text" key.
MaxMessages == 3     \* most messages in an export
MaxChunkSize == 2    \* largest chunk_size

StrText(s) == [kind |-> "str", s |-> s]
ListText(parts) == [kind |-> "list", parts |-> parts]
StrPart(s) == [kind |-> "str", s |-> s]
DictPart(text) == [kind |-> "dict", text |-> text]

\* str.strip(): without its leading and trailing whitespace.
strip(s) ==
    LET solid == {i \in 1..Len(s) : s[i] # " "} IN
    IF solid = {} THEN <<>>
    ELSE SubSeq(s, CHOOSE i \in solid : \A j \in solid : i <= j,
                   CHOOSE i \in solid : \A j \in solid : i >= j)

\* "".join(text_parts) of lines 36-42: the str parts and the "text" of the
\* dict parts that have one, in order.
RECURSIVE join_parts(_)
join_parts(parts) ==
    IF parts = <<>> THEN <<>>
    ELSE LET part == Head(parts) IN
         (IF part.kind = "str" THEN part.s
          ELSE IF part.text # None THEN Val(part.text)
          ELSE <<>>) \o join_parts(Tail(parts))

\* clean_message: None, or the record of the kept fields.
clean_message(msg) ==
    IF msg.type = "service" THEN None
    ELSE IF msg.text = None THEN None
    ELSE LET value == IF Val(msg.text).kind = "list"
                      THEN join_parts(Val(msg.text).parts)
                      ELSE Val(msg.text).s
         IN  IF value = <<>> \/ strip(value) = <<>> THEN None
             ELSE Some([date |-> msg.date, text |-> value])

\* The cleaning loop of lines 81-93, from message k on.
RECURSIVE clean_loop(_, _, _)
clean_loop(messages, k, st) ==
    IF k > Len(messages) THEN st
    ELSE IF messages[k].type = "service"
    THEN clean_loop(messages, k + 1,
                    [st EXCEPT !.skipped_service = st.skipped_service + 1])
    ELSE LET cleaned == clean_message(messages[k]) IN
         IF cleaned # None
         THEN clean_loop(messages, k + 1,
                         [st EXCEPT !.cleaned_messages = Append(@, Val(cleaned))])
         ELSE clean_loop(messages, k + 1,
                         [st EXCEPT !.skipped_no_text = st.skipped_no_text + 1])

\* The chunk file written by iteration i (from 0) of the loop of 106-131.
chunk_data(cleaned_messages, size, num_chunks, i) ==
    LET start_idx == i * size
        total_cleaned == Len(cleaned_messages)
        end_idx == IF (i + 1) * size < total_cleaned THEN (i + 1) * size ELSE total_cleaned
        chunk == SubSeq(cleaned_messages, start_idx + 1, end_idx)
    IN  [chunk_number |-> i + 1, total_chunks |-> num_chunks,
         messages_in_chunk |-> Len(chunk),
         message_range |-> [start |-> start_idx + 1, end |-> end_idx],
         messages |-> chunk]

\* split_messages on a parsed export: what it returned or raised, the chunk
\* files it wrote in order, and its three counts.
split_messages(messages, size) ==
    LET st == clean_loop(messages, 1,
                         [cleaned_messages |-> <<>>, skipped_service |-> 0,
                          skipped_no_text |-> 0])
        total_messages == Len(messages)
        total_cleaned == Len(st.cleaned_messages)
        num_chunks == (total_cleaned + size - 1) \div size
    IN  IF total_messages = 0
        THEN \* line 100: total_cleaned/total_messages
             [out |-> Raise("ZeroDivisionError", <<"division by zero">>),
              written |-> <<>>, kept |-> total_cleaned,
              skipped_service |-> st.skipped_service,
              skipped_no_text |-> st.skipped_no_text]
        ELSE [out |-> Ret(None),
              written |-> [c \in 1..num_chunks |->
                              chunk_data(st.cleaned_messages, size, num_chunks, c - 1)],
              kept |-> total_cleaned,
              skipped_service |-> st.skipped_service,
              skipped_no_text |-> st.skipped_no_text]

\* The messages an export is made of; date is set to the position.
MessageKinds ==
    { [type |-> "service", text |-> Some(StrText(<<"a">>))],
      [type |-> "message", text |-> Some(StrText(<<"a", " ">>))],
      [type |-> "message", text |-> Some(StrText(<<" ">>))],
      [type |-> "message", text |-> Some(StrText(<<>>))],
      [type |-> "message", text |-> None],
      [type |-> "message",
       text |-> Some(ListText(<<StrPart(<<"a">>), DictPart(Some(<<"b">>))>>))],
      [type |-> "message",
       text |-> Some(ListText(<<StrPart(<<" ">>), DictPart(None)>>))] }

Exports ==
    UNION { { [k \in 1..n |-> [type |-> kinds[k].type, text |-> kinds[k].text, date |-> k]] :
                kinds \in [1..n -> MessageKinds] } : n \in 0..MaxMessages }

\* No service process is involved.
SplitInit ==
    /\ phase = "none"
    /\ ServiceStart
    /\ ProcessStart
    /\ ConcStart
    /\ export \in Exports
    /\ chunk_size \in 1..MaxChunkSize
    /\ split = None

\* python split_telegram_history.py, after the input file has been parsed.
RunSplit ==
    /\ split = None
    /\ split' = Some(split_messages(export, chunk_size))
    /\ UNCHANGED <<phase, embedding_service, request_counter, last_request_time,
                   reading, resp, call>>
    /\ UNCHANGED <<process, conc, export, chunk_size>>

SplitNext == RunSplit

SplitSpec == SplitInit /\ [][SplitNext]_vars

\* The messages clean_message keeps, in export order.
KeptMessages ==
    LET keep == {k \in 1..Len(export) : clean_message(export[k]) # None}
        nth(i) == CHOOSE k \in keep : Cardinality({j \in keep : j < k}) = i - 1
    IN  [i \in 1..Cardinality(keep) |-> Val(clean_message(export[nth(i)]))]

RECURSIVE Flatten(_)
Flatten(chunks) ==
    IF chunks = <<>> THEN <<>> ELSE Head(chunks).messages \o Flatten(Tail(chunks))

\* C17: for every export (M >= 0 messages) and chunk_size >= 1,
\* split_messages does not raise and writes ceil(K / chunk_size) chunks, K
\* being the number of kept messages; the chunks in order are the kept
\* messages in order; every chunk has 1..chunk_size messages, all but the
\* last exactly chunk_size; the ranges are 1-based, contiguous and end at
\* K; and kept + skipped_service + skipped_no_text = M.
C17_SplitPartition ==
    split # None =>
        LET r == Val(split)
            K == Len(KeptMessages)
            n == Len(r.written)
        IN  /\ ~r.out.raised
            /\ n * chunk_size >= K /\ (n - 1) * chunk_size < K
            /\ Flatten(r.written) = KeptMessages
            /\ \A c \in 1..n :
                  /\ r.written[c].chunk_number = c
                  /\ Len(r.written[c].messages) \in 1..chunk_size
                  /\ c < n => Len(r.written[c].messages) = chunk_size
                  /\ r.written[c].messages_in_chunk = Len(r.written[c].messages)
                  /\ r.written[c].message_range.start = (c - 1) * chunk_size + 1
                  /\ r.written[c].message_range.end =
                        r.written[c].message_range.start + Len(r.written[c].messages) - 1
            /\ n > 0 => r.written[n].message_range.end = K
            /\ r.kept = K
            /\ r.kept + r.skipped_service + r.skipped_no_text = Len(export)

====
